---- MODULE Spec2Model ----
(***************************************************************************)
(* Matchmaking and signaling relay of the anologia signaling server        *)
(* (server/src/index.js): the waiting queue, the peers map, the userInfo   *)
(* map and the socket.io handlers connection, signal, find-next,           *)
(* disconnect, plus the periodic queue sweep.  Every handler runs to       *)
(* completion on the single node.js event loop, so each is one action.     *)
(***************************************************************************)
EXTENDS Naturals, Integers, Sequences, FiniteSets

\* ---- bounds of the model ------------------------------------------------
MaxConn == 3          \* sockets that ever connect (socket ids 1..MaxConn)
MaxTicks == 2         \* clock advances of TickStep each
MaxSignals == 2       \* signal events relayed in SpecRelay
MaxRelayConn == 2     \* sockets that ever connect in SpecRelay
MaxQueue == 3         \* length of the queues findMatch is applied to in SpecFifo
MaxClientConn == 2    \* sockets that ever connect in SpecClient
MaxPending == 2       \* events in flight to one client in SpecClient

\* ---- program constants --------------------------------------------------
Timeout == 300000     \* const timeout = 5 * 60 * 1000
SweepPeriod == 60000  \* setInterval(..., 60000)
TickStep == 3 * SweepPeriod   \* the clock is observed every third sweep period

Ids == 1..MaxConn
NoPeer == 0           \* peers.get() of a missing key, findMatch's null
NoUser == -1          \* userInfo.get() of a missing key
Undefined == "undefined"
Payloads == {"offer", "answer", Undefined}

VARIABLES
  waitingQueue,   \* sequence of user objects [socketId, joinedAt] (see Entry)
  peers,          \* Map socketId -> socketId (NoPeer when absent)
  userInfo,       \* Map socketId -> joinedAt of the user object (NoUser when absent)
  sockets,        \* io.sockets.sockets: the ids of the connected sockets
  nextId,         \* number of socket ids handed out so far
  now,            \* Date.now()
  emitted,        \* events emitted by the handler that ran last, in order
  op,             \* the handler that ran last and its local variables
  channel,        \* per socket: the signal payloads put on its transport, in order
  sigLog,         \* the signal events that took the relay branch, in order
  pending,        \* per socket: lifecycle events sent to its client, not yet handled
  client,         \* per socket: connectionState and peerRef of its browser client
  clientOp,       \* the client handler that ran last and what it emitted
  lastNote        \* per socket: the lifecycle event the server sent to it last

clientVars == <<pending, client, clientOp, lastNote>>

vars == <<waitingQueue, peers, userInfo, sockets, nextId, now, emitted, op,
          channel, sigLog, pending, client, clientOp, lastNote>>

\* ---- events ---------------------------------------------------------------
Ev(to, event, peerSocketId, isInitiator, payload) ==
  [to |-> to, event |-> event, peerSocketId |-> peerSocketId,
   isInitiator |-> isInitiator, payload |-> payload]

Op(name, id, peer, currentPeer, payload) ==
  [name |-> name, id |-> id, peer |-> peer, currentPeer |-> currentPeer,
   payload |-> payload]

\* ---- the user object built by the connection handler ---------------------
User(id, t) == [socketId |-> id, joinedAt |-> t]

\* ---- a queue entry ---------------------------------------------------------
\* The queue holds the user object itself.  enqueuedAt is not a field of the
\* program's object: it records the moment of the push, which the program
\* does not keep.
Entry(user, t) ==
  [socketId |-> user.socketId, joinedAt |-> user.joinedAt, enqueuedAt |-> t]

\* ---- findMatch -------------------------------------------------------------
findMatchResult(q) == IF Len(q) = 0 THEN NoPeer ELSE Head(q).socketId

findMatchQueueKeep(q) == q

findMatchQueue(q) == IF Len(q) = 0 THEN q ELSE Tail(q)

findMatchOffByOne(q) ==
  IF Len(q) <= 1
  THEN [socketId |-> NoPeer, queue |-> q]
  ELSE [socketId |-> Head(q).socketId, queue |-> Tail(q)]

findMatchLast(q) ==
  IF Len(q) = 0
  THEN [socketId |-> NoPeer, queue |-> q]
  ELSE [socketId |-> q[Len(q)].socketId, queue |-> SubSeq(q, 1, Len(q) - 1)]

findMatchPeek(q) ==
  IF Len(q) = 0
  THEN [socketId |-> NoPeer, queue |-> q]
  ELSE [socketId |-> Head(q).socketId, queue |-> q]

\* the value findMatch returns and the queue it leaves behind
findMatch(q) == [socketId |-> findMatchResult(q), queue |-> findMatchQueue(q)]

\* ---- peers map -------------------------------------------------------------
setPairOneSide(p, a, b) == [p EXCEPT ![a] = b]

setPair(p, a, b) == [[p EXCEPT ![a] = b] EXCEPT ![b] = a]

deletePairOneSide(p, first, second) == [p EXCEPT ![second] = NoPeer]

deletePairPartnerOnly(p, first, second) == [p EXCEPT ![first] = NoPeer]

deletePair(p, first, second) ==
  [[p EXCEPT ![first] = NoPeer] EXCEPT ![second] = NoPeer]

cleanupPeersOwnOnly(p, id) == [p EXCEPT ![id] = NoPeer]

cleanupPeers(p, id) ==
  IF p[id] # NoPeer THEN deletePair(p, p[id], id) ELSE p

cleanupQueueKeep(q, id) == q

cleanupQueueAll(q, id) == << >>

cleanupQueue(q, id) == SelectSeq(q, LAMBDA user: user.socketId # id)

cleanupInfo(u, id) == [u EXCEPT ![id] = NoUser]

\* ---- notifications of a match ---------------------------------------------
matchEventsSwapped(requester, waiter) ==
  << Ev(waiter, "match-found", requester, FALSE, ""),
     Ev(requester, "match-found", waiter, TRUE, "") >>

matchEventsSelfId(requester, waiter) ==
  << Ev(waiter, "match-found", waiter, TRUE, ""),
     Ev(requester, "match-found", requester, FALSE, "") >>

matchEvents(requester, waiter) ==
  << Ev(waiter, "match-found", requester, TRUE, ""),
     Ev(requester, "match-found", waiter, FALSE, "") >>

waitingEventNone(id) == << >>

waitingEvent(id) == << Ev(id, "waiting-for-peer", NoPeer, FALSE, "") >>

peerDisconnectedNone(id) == << >>

peerDisconnected(id) == << Ev(id, "peer-disconnected", NoPeer, FALSE, "") >>

\* ---- queue sweep -----------------------------------------------------------
isExpiredSinceEnqueue(t, user) == t - user.enqueuedAt > Timeout

isExpired(t, user) == t - user.joinedAt > Timeout

sweepQueue(q, t) == SelectSeq(q, LAMBDA user: ~isExpired(t, user))

sweepEmitsNotice(q, t) ==
  LET gone == SelectSeq(q, LAMBDA user: isExpired(t, user))
  IN [i \in DOMAIN gone |-> Ev(gone[i].socketId, "queue-timeout", NoPeer, FALSE, "")]

\* what the sweep sends: it only logs QUEUE_TIMEOUT for the users it drops
sweepEmits(q, t) == << >>

\* ---- state helpers ---------------------------------------------------------
InQueue(id) == \E i \in 1..Len(waitingQueue) : waitingQueue[i].socketId = id

QueueEntries(id) ==
  Cardinality({i \in 1..Len(waitingQueue) : waitingQueue[i].socketId = id})

IsPaired(id) == peers[id] # NoPeer

EmittedTo(id, event) ==
  {i \in 1..Len(emitted) : emitted[i].to = id /\ emitted[i].event = event}

\* ---- app.get("/health") ----------------------------------------------------
peersSize == Cardinality({a \in Ids : peers[a] # NoPeer})

\* peers.size / 2 is a floating point division: whole is its integer part,
\* half is 1 when the quotient ends in .5
health ==
  [activeConnections |-> Cardinality(sockets),
   waitingQueue |-> Len(waitingQueue),
   activePairs |-> [whole |-> peersSize \div 2, half |-> peersSize % 2]]

\* ---- the browser client's connectionState ---------------------------------
ClientState(isConnected, isWaiting, hasPeer) ==
  [isConnected |-> isConnected, isWaiting |-> isWaiting, hasPeer |-> hasPeer]

ClientInitial == ClientState(FALSE, TRUE, FALSE)

ClientOp(name, id, emits) == [name |-> name, id |-> id, emits |-> emits]

\* a lifecycle event as its receiver sees it: the event name and, for
\* match-found, the peerSocketId it carries
Note(event, peerSocketId) == [event |-> event, peerSocketId |-> peerSocketId]

NoNote == Note("none", NoPeer)

Init ==
  /\ waitingQueue = << >>
  /\ peers = [i \in Ids |-> NoPeer]
  /\ userInfo = [i \in Ids |-> NoUser]
  /\ sockets = {}
  /\ nextId = 0
  /\ now = 0
  /\ emitted = << >>
  /\ op = Op("init", NoPeer, NoPeer, NoPeer, "")
  /\ channel = [i \in Ids |-> << >>]
  /\ sigLog = << >>
  /\ pending = [i \in Ids |-> << >>]
  /\ client = [i \in Ids |-> ClientInitial]
  /\ clientOp = ClientOp("init", NoPeer, << >>)
  /\ lastNote = [i \in Ids |-> NoNote]

\* ---- io.on("connection") ---------------------------------------------------
Connect ==
  /\ nextId < MaxConn
  /\ LET id == nextId + 1
         user == User(id, now)
         peerSocketId == findMatch(waitingQueue).socketId
         q1 == findMatch(waitingQueue).queue
     IN /\ nextId' = id
        /\ sockets' = sockets \cup {id}
        /\ userInfo' = [userInfo EXCEPT ![id] = user.joinedAt]
        /\ IF peerSocketId # NoPeer
           THEN /\ peers' = setPair(peers, id, peerSocketId)
                /\ waitingQueue' = q1
                /\ emitted' = matchEvents(id, peerSocketId)
           ELSE /\ peers' = peers
                /\ waitingQueue' = Append(q1, Entry(user, now))
                /\ emitted' = waitingEvent(id)
        /\ op' = Op("connect", id, peerSocketId, NoPeer, "")
  /\ UNCHANGED <<now, channel, sigLog>>

\* ---- socket.on("signal") ---------------------------------------------------
relayDeliverFront(ch, to, payload) == [ch EXCEPT ![to] = <<payload>> \o @]

relayDeliver(ch, to, payload) == [ch EXCEPT ![to] = Append(@, payload)]

signalErrorToPeer(id, peerSocketId) ==
  << Ev(IF peerSocketId # NoPeer THEN peerSocketId ELSE (id % MaxConn) + 1,
        "error", NoPeer, FALSE, "No active peer connection") >>

signalError(id, peerSocketId) ==
  << Ev(id, "error", NoPeer, FALSE, "No active peer connection") >>

signalRelays(id, payload) ==
  /\ peers[id] # NoPeer
  /\ peers[id] \in sockets
  /\ payload # Undefined   \* payload.type throws in the try block; the catch only logs

signalEmits(id, payload) ==
  LET peerSocketId == peers[id]
  IN IF peerSocketId # NoPeer /\ peerSocketId \in sockets
     THEN IF payload = Undefined
          THEN << >>
          ELSE << Ev(peerSocketId, "signal", NoPeer, FALSE, payload) >>
     ELSE signalError(id, peerSocketId)

SignalHandlerCleansUp(id, payload) ==
  /\ id \in sockets
  /\ emitted' = signalEmits(id, payload)
  /\ op' = Op("signal", id, peers[id], NoPeer, payload)
  /\ peers' = IF payload = Undefined THEN cleanupPeers(peers, id) ELSE peers
  /\ UNCHANGED <<waitingQueue, userInfo, sockets, nextId, now>>

SignalHandler(id, payload) ==
  /\ id \in sockets
  /\ emitted' = signalEmits(id, payload)
  /\ op' = Op("signal", id, peers[id], NoPeer, payload)
  /\ UNCHANGED <<waitingQueue, peers, userInfo, sockets, nextId, now>>

\* the handler, the transports of the sockets left unobserved
Signal(id, payload) ==
  /\ SignalHandler(id, payload)
  /\ UNCHANGED <<channel, sigLog>>

\* the handler, with what it puts on the partner's transport recorded
SignalOnChannel(id, payload) ==
  /\ SignalHandler(id, payload)
  /\ IF signalRelays(id, payload)
     THEN /\ Len(sigLog) < MaxSignals
          /\ channel' = relayDeliver(channel, peers[id], payload)
          /\ sigLog' = Append(sigLog, [to |-> peers[id], payload |-> payload])
     ELSE UNCHANGED <<channel, sigLog>>

\* ---- socket.on("find-next") ------------------------------------------------
FindNext(id) ==
  /\ id \in sockets
  /\ LET currentPeer == peers[id]
         user == User(id, userInfo[id])
         p1 == IF currentPeer # NoPeer THEN deletePair(peers, currentPeer, id) ELSE peers
         e1 == IF currentPeer # NoPeer THEN peerDisconnected(currentPeer) ELSE << >>
         newPeerSocketId == findMatch(waitingQueue).socketId
         q1 == findMatch(waitingQueue).queue
     IN /\ IF newPeerSocketId # NoPeer
           THEN /\ peers' = setPair(p1, id, newPeerSocketId)
                /\ waitingQueue' = q1
                /\ emitted' = e1 \o matchEvents(id, newPeerSocketId)
           ELSE /\ peers' = p1
                /\ waitingQueue' = Append(q1, Entry(user, now))
                /\ emitted' = e1 \o waitingEvent(id)
        /\ op' = Op("find-next", id, newPeerSocketId, currentPeer, "")
  /\ UNCHANGED <<userInfo, sockets, nextId, now, channel, sigLog>>

\* ---- socket.on("disconnect") -----------------------------------------------
\* socket.io takes the socket out of io.sockets.sockets before it emits
\* "disconnect", and calls no further handler of that socket afterwards.
Disconnect(id) ==
  /\ id \in sockets
  /\ LET peerSocketId == peers[id]
         live == sockets \ {id}
     IN /\ sockets' = live
        /\ emitted' = IF peerSocketId # NoPeer /\ peerSocketId \in live
                      THEN peerDisconnected(peerSocketId) ELSE << >>
        /\ peers' = cleanupPeers(peers, id)
        /\ waitingQueue' = cleanupQueue(waitingQueue, id)
        /\ userInfo' = cleanupInfo(userInfo, id)
        /\ op' = Op("disconnect", id, peerSocketId, NoPeer, "")
  /\ UNCHANGED <<nextId, now, channel, sigLog>>

\* ---- setInterval queue sweep -----------------------------------------------
Sweep ==
  /\ waitingQueue' = sweepQueue(waitingQueue, now)
  /\ emitted' = sweepEmits(waitingQueue, now)
  /\ op' = Op("sweep", NoPeer, NoPeer, NoPeer, "")
  /\ UNCHANGED <<peers, userInfo, sockets, nextId, now, channel, sigLog>>

\* ---- passage of time -------------------------------------------------------
Tick ==
  /\ now < MaxTicks * TickStep
  /\ now' = now + TickStep
  /\ UNCHANGED <<waitingQueue, peers, userInfo, sockets, nextId, emitted, op,
                 channel, sigLog>>

\* The server alone: the clients are left unobserved.
Next ==
  \/ (Connect /\ UNCHANGED clientVars)
  \/ \E id \in Ids, payload \in Payloads : (Signal(id, payload) /\ UNCHANGED clientVars)
  \/ \E id \in Ids : (FindNext(id) /\ UNCHANGED clientVars)
  \/ \E id \in Ids : (Disconnect(id) /\ UNCHANGED clientVars)
  \/ (Sweep /\ UNCHANGED clientVars)
  \/ (Tick /\ UNCHANGED clientVars)

Spec == Init /\ [][Next]_vars

\* The relay observed on the transports: the same handlers, the clock at rest.
NextRelay ==
  \/ (nextId < MaxRelayConn /\ Connect /\ UNCHANGED clientVars)
  \/ \E id \in Ids, payload \in Payloads :
       (SignalOnChannel(id, payload) /\ UNCHANGED clientVars)
  \/ \E id \in Ids : (FindNext(id) /\ UNCHANGED clientVars)
  \/ \E id \in Ids : (Disconnect(id) /\ UNCHANGED clientVars)

SpecRelay == Init /\ [][NextRelay]_vars

\* findMatch as a function of the queue: applied, again and again, to every
\* queue of up to MaxQueue waiters in the order of their pushes.
Times == {k * TickStep : k \in 0..MaxTicks}

Waiters == {Entry(User(id, t), t) : id \in Ids, t \in Times}

FifoQueues ==
  UNION {{q \in [1..n -> Waiters] :
            \A i, j \in 1..n :
              i < j => /\ q[i].socketId # q[j].socketId
                       /\ q[i].enqueuedAt <= q[j].enqueuedAt}
         : n \in 0..MaxQueue}

InitFifo ==
  /\ waitingQueue \in FifoQueues
  /\ peers = [i \in Ids |-> NoPeer]
  /\ userInfo = [i \in Ids |->
                   IF \E k \in DOMAIN waitingQueue : waitingQueue[k].socketId = i
                   THEN (CHOOSE e \in Waiters :
                           \E k \in DOMAIN waitingQueue :
                             waitingQueue[k] = e /\ e.socketId = i).joinedAt
                   ELSE NoUser]
  /\ sockets = {waitingQueue[k].socketId : k \in DOMAIN waitingQueue}
  /\ nextId = MaxConn
  /\ now = MaxTicks * TickStep
  /\ emitted = << >>
  /\ op = Op("init", NoPeer, NoPeer, NoPeer, "")
  /\ channel = [i \in Ids |-> << >>]
  /\ sigLog = << >>
  /\ pending = [i \in Ids |-> << >>]
  /\ client = [i \in Ids |-> ClientInitial]
  /\ clientOp = ClientOp("init", NoPeer, << >>)
  /\ lastNote = [i \in Ids |-> NoNote]

Match ==
  /\ waitingQueue' = findMatch(waitingQueue).queue
  /\ op' = Op("findMatch", NoPeer, findMatch(waitingQueue).socketId, NoPeer, "")
  /\ UNCHANGED <<peers, userInfo, sockets, nextId, now, emitted, channel, sigLog>>
  /\ UNCHANGED clientVars

NextFifo == Match

SpecFifo == InitFifo /\ [][NextFifo]_vars

\* ---- the browser client (VideoChat component) ------------------------------
\* The lifecycle events a handler emitted to socket id, by name, in order.
LifecycleEvents == {"waiting-for-peer", "match-found", "peer-disconnected"}

SentTo(es, id) ==
  LET s == SelectSeq(es, LAMBDA e: e.to = id /\ e.event \in LifecycleEvents)
  IN [i \in DOMAIN s |-> s[i].event]

\* what the server handler emitted is put on the sockets of the live clients
Deliver ==
  /\ pending' = [i \in Ids |->
                   IF i \in sockets' THEN pending[i] \o SentTo(emitted', i) ELSE << >>]
  /\ \A i \in Ids : Len(pending'[i]) <= MaxPending

ClientHandles(id, event) ==
  /\ id \in sockets
  /\ Len(pending[id]) > 0
  /\ Head(pending[id]) = event
  /\ pending' = [pending EXCEPT ![id] = Tail(@)]
  /\ UNCHANGED <<waitingQueue, peers, userInfo, sockets, nextId, now, emitted, op,
                 channel, sigLog, lastNote>>

\* newSocket.on("waiting-for-peer")
ClientOnWaiting(id) ==
  /\ ClientHandles(id, "waiting-for-peer")
  /\ client' = [client EXCEPT ![id] = ClientState(FALSE, TRUE, @.hasPeer)]
  /\ clientOp' = ClientOp("waiting-for-peer", id, << >>)

\* newSocket.on("match-found"): initializePeerConnection creates the peer
ClientOnMatchFound(id) ==
  /\ ClientHandles(id, "match-found")
  /\ client' = [client EXCEPT ![id] = ClientState(@.isConnected, FALSE, TRUE)]
  /\ clientOp' = ClientOp("match-found", id, << >>)

\* what handlePeerDisconnected sends to the server
peerDisconnectedEmits == << >>

\* newSocket.on("peer-disconnected"): handlePeerDisconnected
ClientOnPeerDisconnected(id) ==
  /\ ClientHandles(id, "peer-disconnected")
  /\ client' = [client EXCEPT ![id] = ClientState(FALSE, TRUE, FALSE)]
  /\ clientOp' = ClientOp("peer-disconnected", id, peerDisconnectedEmits)

\* newPeer.on("connect") / newPeer.on("stream")
ClientPeerConnected(id) ==
  /\ id \in sockets
  /\ client[id].hasPeer
  /\ ~client[id].isConnected
  /\ client' = [client EXCEPT ![id] = ClientState(TRUE, @.isWaiting, @.hasPeer)]
  /\ clientOp' = ClientOp("peer-connect", id, << >>)
  /\ UNCHANGED <<waitingQueue, peers, userInfo, sockets, nextId, now, emitted, op,
                 channel, sigLog, pending, lastNote>>

\* handleSkip, on the user's click: the find-next it emits is handled by the
\* server at once
ClientSkip(id) ==
  /\ FindNext(id)
  /\ Deliver
  /\ client' = [client EXCEPT ![id] = ClientState(FALSE, TRUE, FALSE)]
  /\ clientOp' = ClientOp("skip", id, << "find-next" >>)
  /\ UNCHANGED lastNote

ClientConnect ==
  /\ nextId < MaxClientConn
  /\ Connect
  /\ Deliver
  /\ client' = [client EXCEPT ![nextId + 1] = ClientInitial]
  /\ clientOp' = ClientOp("connect", nextId + 1, << >>)
  /\ UNCHANGED lastNote

ClientDisconnect(id) ==
  /\ Disconnect(id)
  /\ Deliver
  /\ client' = [client EXCEPT ![id] = ClientState(FALSE, TRUE, @.hasPeer)]
  /\ clientOp' = ClientOp("disconnect", id, << >>)
  /\ UNCHANGED lastNote

NextClient ==
  \/ ClientConnect
  \/ \E id \in Ids : ClientDisconnect(id)
  \/ \E id \in Ids : ClientSkip(id)
  \/ \E id \in Ids : ClientOnWaiting(id)
  \/ \E id \in Ids : ClientOnMatchFound(id)
  \/ \E id \in Ids : ClientOnPeerDisconnected(id)
  \/ \E id \in Ids : ClientPeerConnected(id)

SpecClient == Init /\ [][NextClient]_vars

\* ---- the server with the lifecycle events it sends kept per receiver -------
\* the lifecycle events a handler emitted to socket id, in order
NotesTo(es, id) ==
  LET s == SelectSeq(es, LAMBDA e: e.to = id /\ e.event \in LifecycleEvents)
  IN [i \in DOMAIN s |-> Note(s[i].event, s[i].peerSocketId)]

\* socket.emit / io.to(id).emit: the last event sent to a socket replaces the
\* one it had been sent before
Notify ==
  lastNote' = [i \in Ids |->
                 LET s == NotesTo(emitted', i)
                 IN IF Len(s) = 0 THEN lastNote[i] ELSE s[Len(s)]]

Unobserved == UNCHANGED <<pending, client, clientOp>>

\* The handlers that send lifecycle events or change the queue, and the clock;
\* the signal handler emits only "signal" and "error".
NextNotes ==
  \/ (Connect /\ Notify /\ Unobserved)
  \/ \E id \in Ids : (FindNext(id) /\ Notify /\ Unobserved)
  \/ \E id \in Ids : (Disconnect(id) /\ Notify /\ Unobserved)
  \/ (Sweep /\ UNCHANGED clientVars)
  \/ (Tick /\ UNCHANGED clientVars)

SpecNotes == Init /\ [][NextNotes]_vars

\* ==== properties ===========================================================

Count(S) == Cardinality(S)

PayloadsTo(b) ==
  LET s == SelectSeq(sigLog, LAMBDA e: e.to = b)
  IN [i \in 1..Len(s) |-> s[i].payload]

\* C1: in every reachable state no connection is at once QUEUED (has an entry
\* in waitingQueue) and PAIRED (has an entry in peers).
C1_NeverQueuedAndPaired ==
  \A id \in Ids : ~(InQueue(id) /\ IsPaired(id))

\* a skip that left the skipper queued while another pairing is active
C1_Witness ==
  /\ op.name = "find-next"
  /\ InQueue(op.id)
  /\ \E b \in Ids : b # op.id /\ IsPaired(b)

\* C2: in every reachable state the pairing table is symmetric: if
\* partnerOf(A) = B then partnerOf(B) = A; no half-open pairing is left.
C2_PairingSymmetric ==
  \A a \in Ids : peers[a] # NoPeer => peers[peers[a]] = a

\* a skip out of a pairing with another connection into a pairing with a waiter
C2_Witness ==
  /\ op.name = "find-next"
  /\ op.currentPeer # NoPeer /\ op.currentPeer # op.id
  /\ op.peer # NoPeer /\ op.peer # op.id
  /\ peers[op.id] = op.peer

\* C3: every Pairing relates two distinct connections: partnerOf(A) # A in
\* every reachable state (the waiter dequeued for a requester is never the
\* requester itself).
C3_PartnersDistinct ==
  \A a \in Ids : peers[a] # a

\* C4: find-next on a connection that is QUEUED and not PAIRED is a no-op:
\* afterwards it is still QUEUED with exactly one entry, not PAIRED, and the
\* pairing table is unchanged.
C4_FindNextWhileQueuedIsNoOp ==
  [][\A id \in Ids :
       (FindNext(id) /\ InQueue(id) /\ ~IsPaired(id))
         => /\ QueueEntries(id)' = 1
            /\ ~IsPaired(id)'
            /\ peers' = peers]_vars

\* C5: in every match made by connect or find-next the dequeued waiter is
\* sent match-found with isInitiator = TRUE and the arriving or skipping
\* requester is sent match-found with isInitiator = FALSE.
C5_WaiterIsInitiator ==
  (op.name \in {"connect", "find-next"} /\ op.peer # NoPeer) =>
    /\ \E i \in 1..Len(emitted) :
         emitted[i] = Ev(op.peer, "match-found", op.id, TRUE, "")
    /\ \E i \in 1..Len(emitted) :
         emitted[i] = Ev(op.id, "match-found", op.peer, FALSE, "")
    /\ \A i \in 1..Len(emitted) :
         emitted[i].event = "match-found" =>
           emitted[i].to = (IF emitted[i].isInitiator THEN op.peer ELSE op.id)

\* a skip matched with a waiter other than the skipper
C5_Witness ==
  /\ op.name = "find-next"
  /\ op.peer # NoPeer /\ op.peer # op.id
  /\ Count(EmittedTo(op.peer, "match-found")) = 1
  /\ Count(EmittedTo(op.id, "match-found")) = 1

\* C6: after the disconnect handler of X returns, X has no queue entry, X is
\* neither key nor partner in the pairing table, X is out of the registry,
\* and X's former partner (if any) was sent exactly one peer-disconnected
\* and is no longer PAIRED.
C6_DisconnectCleanup ==
  op.name = "disconnect" =>
    /\ ~InQueue(op.id)
    /\ peers[op.id] = NoPeer
    /\ \A a \in Ids : peers[a] # op.id
    /\ userInfo[op.id] = NoUser
    /\ op.id \notin sockets
    /\ op.peer # NoPeer =>
         /\ Count(EmittedTo(op.peer, "peer-disconnected")) = 1
         /\ peers[op.peer] = NoPeer

\* C7: find-next by A that is PAIRED with B tears the pairing down for both,
\* sends B exactly one peer-disconnected and re-runs the matching policy for
\* A: afterwards A is PAIRED with a connection other than A or QUEUED, and B
\* is neither QUEUED nor PAIRED.
C7_SkipWhilePaired ==
  (op.name = "find-next" /\ op.currentPeer # NoPeer) =>
    /\ Count(EmittedTo(op.currentPeer, "peer-disconnected")) = 1
    /\ op.id \in sockets /\ userInfo[op.id] # NoUser
    /\ \/ (peers[op.id] # NoPeer /\ peers[op.id] # op.id)
       \/ InQueue(op.id)
    /\ ~InQueue(op.currentPeer)
    /\ peers[op.currentPeer] = NoPeer

\* C8: a signal from A that is PAIRED with B results in exactly one signal
\* event addressed to B with the identical payload, and in no event
\* addressed to A.
C8_SignalRelayedToPartnerOnly ==
  (op.name = "signal" /\ op.peer # NoPeer) =>
    /\ emitted = << Ev(op.peer, "signal", NoPeer, FALSE, op.payload) >>
    /\ \A i \in 1..Len(emitted) : emitted[i].to # op.id

\* C9: a signal from a connection with no pairing-table entry (or whose
\* partner is not live) produces exactly one error event, addressed to the
\* sender, nothing for any other connection, and leaves the queue, the
\* pairing table and the registry unchanged.
C9_SignalWithoutPeerIsError ==
  [][\A id \in Ids, payload \in Payloads :
       (Signal(id, payload) /\ ~(peers[id] # NoPeer /\ peers[id] \in sockets))
         => /\ Len(emitted') = 1
            /\ emitted'[1].to = id
            /\ emitted'[1].event = "error"
            /\ UNCHANGED <<waitingQueue, peers, userInfo, sockets>>]_vars

\* a queued, unpaired connection signalled and got the error
C9_Witness ==
  /\ op.name = "signal"
  /\ op.peer = NoPeer
  /\ InQueue(op.id)
  /\ Count(EmittedTo(op.id, "error")) = 1

\* C10: the signals relayed to a connection are on its channel in the order
\* in which the senders' signal events were processed: none reordered,
\* duplicated or held back.
C10_RelayKeepsOrder ==
  \A b \in Ids : channel[b] = PayloadsTo(b)

\* two different payloads relayed to the same connection
C10_Witness ==
  \E b \in Ids :
    /\ Len(channel[b]) >= 2
    /\ channel[b][1] # channel[b][2]

\* C11: in every reachable state the waiting queue holds at most one entry
\* per connection identifier.
C11_OneEntryPerConnection ==
  \A id \in Ids : QueueEntries(id) <= 1

\* a skip out of a pairing pushed the skipper, which connected earlier
C11_Witness ==
  /\ op.name = "find-next"
  /\ op.currentPeer # NoPeer
  /\ op.peer = NoPeer
  /\ QueueEntries(op.id) = 1

\* C12: a sweep removes exactly the queue entries whose age, measured from
\* the moment the entry was enqueued, exceeds the 5 minute maxAge, and keeps
\* every younger entry, also an entry made by a find-next re-queue of a
\* connection that connected more than maxAge ago.
C12_SweepByEnqueueAge ==
  [][Sweep =>
       waitingQueue' =
         SelectSeq(waitingQueue, LAMBDA e: ~(now - e.enqueuedAt > Timeout))]_vars

\* the Pairings: the unordered pairs related by the pairing table
Pairings == {{a, peers[a]} : a \in {x \in Ids : peers[x] # NoPeer}}

\* C13: in every reachable state the activePairs value of the health surface
\* is a whole number equal to the number of Pairings (the pairing table has
\* an even number of entries), and waitingQueue is the number of queue
\* entries.
C13_HealthCountsPairings ==
  /\ health.activePairs.half = 0
  /\ health.activePairs.whole = Cardinality(Pairings)
  /\ health.waitingQueue = Cardinality(DOMAIN waitingQueue)

\* C14: from an empty server A, B, C connect in that order and A skips:
\* A is queued and told waiting-for-peer; B's connect pairs A and B with A
\* the initiator; C is queued; A's find-next sends B peer-disconnected and
\* leaves B neither queued nor paired, pairs A with C with C the initiator
\* and A not, and empties the queue.
C14_ScenarioABC ==
  [][/\ (nextId = 0 /\ sockets = {} /\ waitingQueue = << >> /\ Connect)
         => /\ InQueue(1)' /\ Len(waitingQueue') = 1
            /\ emitted' = << Ev(1, "waiting-for-peer", NoPeer, FALSE, "") >>
     /\ (nextId = 1 /\ sockets = {1} /\ InQueue(1) /\ peers[1] = NoPeer /\ Connect)
         => /\ peers'[1] = 2 /\ peers'[2] = 1 /\ waitingQueue' = << >>
            /\ Count(EmittedTo(1, "match-found")') = 1
            /\ \A i \in EmittedTo(1, "match-found")' : emitted'[i].isInitiator
            /\ \A i \in EmittedTo(2, "match-found")' : ~emitted'[i].isInitiator
     /\ (nextId = 2 /\ sockets = {1, 2} /\ peers[1] = 2 /\ peers[2] = 1
           /\ waitingQueue = << >> /\ Connect)
         => /\ InQueue(3)' /\ Len(waitingQueue') = 1 /\ peers' = peers
            /\ emitted' = << Ev(3, "waiting-for-peer", NoPeer, FALSE, "") >>
     /\ (nextId = 3 /\ sockets = {1, 2, 3} /\ peers[1] = 2 /\ peers[2] = 1
           /\ peers[3] = NoPeer /\ Len(waitingQueue) = 1 /\ InQueue(3)
           /\ FindNext(1))
         => /\ Count(EmittedTo(2, "peer-disconnected")') = 1
            /\ ~InQueue(2)' /\ peers'[2] = NoPeer
            /\ peers'[1] = 3 /\ peers'[3] = 1
            /\ emitted'[Len(emitted') - 1] = Ev(3, "match-found", 1, TRUE, "")
            /\ emitted'[Len(emitted')] = Ev(1, "match-found", 3, FALSE, "")
            /\ Count(EmittedTo(1, "match-found")') = 1
            /\ Count(EmittedTo(3, "match-found")') = 1
            /\ waitingQueue' = << >>
    ]_vars

\* the end of the scenario: A skipped from B to the waiting C
C14_Witness ==
  /\ nextId = 3 /\ sockets = {1, 2, 3}
  /\ op = Op("find-next", 1, 3, 2, "")
  /\ peers[1] = 3 /\ peers[3] = 1 /\ peers[2] = NoPeer
  /\ waitingQueue = << >>

\* C15: matches dequeue waiters in FIFO order of enqueue: when W1 was
\* enqueued before W2 and both are queued, a match takes the earliest waiter,
\* never W2 ahead of W1, and the waiters behind keep their order.
C15_DequeueIsFifo ==
  [][/\ \A i, j \in DOMAIN waitingQueue :
          i < j => /\ op'.peer # waitingQueue[j].socketId
                   /\ \E k \in DOMAIN waitingQueue' :
                        waitingQueue'[k].socketId = waitingQueue[j].socketId
     /\ Len(waitingQueue) > 0 =>
          /\ op'.peer = waitingQueue[1].socketId
          /\ \A k \in DOMAIN waitingQueue' : waitingQueue'[k] = waitingQueue[k + 1]
    ]_vars

\* a waiter was dequeued while a later waiter stays queued behind it
C15_Witness ==
  /\ op.name = "findMatch"
  /\ op.peer # NoPeer
  /\ Len(waitingQueue) >= 1
  /\ ~InQueue(op.peer)

\* live, with no queue entry and no pairing
Unmatched(p) == p \in sockets /\ ~InQueue(p) /\ peers[p] = NoPeer

\* C16: when X disconnects or skips while paired with P, P is notified but is
\* not re-enqueued or re-paired by that operation: P stays live and neither
\* QUEUED nor PAIRED until P itself issues find-next.
C16_PartnerLeftUnmatched ==
  [][/\ \A x \in Ids :
          ((Disconnect(x) \/ FindNext(x)) /\ peers[x] # NoPeer) =>
            LET p == peers[x]
            IN /\ p \in sockets'
               /\ \A k \in DOMAIN waitingQueue' : waitingQueue'[k].socketId # p
               /\ peers'[p] = NoPeer
               /\ \E i \in DOMAIN emitted' :
                    emitted'[i].to = p /\ emitted'[i].event = "peer-disconnected"
     /\ \A p \in Ids :
          (Unmatched(p) /\ p \in sockets' /\ ~Unmatched(p)') => FindNext(p)
    ]_vars

\* C17: whenever a pairing is created, a match-found event is emitted to each
\* of its two members in the same operation, and the peerSocketId of each
\* such event is the recipient's partner in the pairing table.
C17_MatchFoundNamesPartner ==
  [][\A a \in Ids :
       (peers'[a] # NoPeer /\ peers'[a] # peers[a]) =>
         /\ \E i \in DOMAIN emitted' :
              /\ emitted'[i].to = a
              /\ emitted'[i].event = "match-found"
              /\ emitted'[i].peerSocketId = peers'[a]
         /\ \A i \in DOMAIN emitted' :
              emitted'[i].event = "match-found" =>
                emitted'[i].peerSocketId = peers'[emitted'[i].to]
    ]_vars

\* a connect that was matched with a waiter at once
C17_Witness ==
  /\ op.name = "connect"
  /\ op.peer # NoPeer
  /\ peers[op.id] = op.peer /\ peers[op.peer] = op.id
  /\ Count(EmittedTo(op.id, "match-found")) = 1
  /\ Count(EmittedTo(op.peer, "match-found")) = 1

\* C18: a queue entry is dequeued by at most one matching attempt: the match
\* that takes a waiter removes its only entry in the same handler, and the
\* waiter ends as the partner of that one requester.
C18_EntryDequeuedOnce ==
  [][((Connect \/ \E r \in Ids : FindNext(r)) /\ op'.peer # NoPeer) =>
       LET w == op'.peer
           r == op'.id
       IN /\ QueueEntries(w) = 1
          /\ \A k \in DOMAIN waitingQueue' : waitingQueue'[k].socketId # w
          /\ Len(waitingQueue') = Len(waitingQueue) - 1
          /\ peers'[w] = r
          /\ \A a \in Ids : peers'[a] = w => a = r
    ]_vars

\* a waiter that had itself skipped out of a pairing was taken by a requester
C18_Witness ==
  /\ op.name \in {"connect", "find-next"}
  /\ op.peer # NoPeer /\ op.peer # op.id
  /\ op.peer < op.id
  /\ userInfo[op.peer] < now
  /\ waitingQueue = << >>
  /\ \A a \in Ids : peers[a] = op.peer => a = op.id

\* recipients and kinds of a sequence of events
Shape(es) == [i \in DOMAIN es |-> [to |-> es[i].to, event |-> es[i].event]]

\* C19: the outcome of a signal event depends only on the pairing table and
\* the partner's liveness, never on the payload: for any two payloads, a
\* missing one included, the recipients and kinds of the emitted events are
\* the same.
C19_OutcomeIgnoresPayload ==
  \A id \in sockets : \A p1, p2 \in Payloads :
    Shape(signalEmits(id, p1)) = Shape(signalEmits(id, p2))

\* C20: after a client receives peer-disconnected, the client emits
\* find-next on its own, so that it does not stay live, unqueued and unpaired
\* while it shows a waiting status.
C20_ClientReentersMatching ==
  clientOp.name = "peer-disconnected" =>
    \E i \in DOMAIN clientOp.emits : clientOp.emits[i] = "find-next"


\* the connections that have disconnected: socket ids are never handed out twice
Terminated == (1..nextId) \ sockets

NoTraceOf(id) ==
  /\ ~InQueue(id)
  /\ peers[id] = NoPeer
  /\ \A a \in Ids : peers[a] # id
  /\ userInfo[id] = NoUser
  /\ \A i \in DOMAIN emitted : emitted[i].to # id

\* C21: TERMINATED is absorbing: a connection that has disconnected stays
\* disconnected, and from its disconnect on its identifier is in no queue
\* entry, is neither key nor partner in the pairing table, is not in the
\* registry, and no handler addresses an event to it.
C21_TerminatedIsAbsorbing ==
  [][/\ Terminated \subseteq Terminated'
     /\ \A id \in Terminated' : NoTraceOf(id)']_vars

\* a connection has disconnected and a find-next handled after that has
\* matched two other connections, emitting match-found to both
C21_Witness ==
  /\ Terminated # {}
  /\ op.name = "find-next"
  /\ op.peer # NoPeer /\ op.peer # op.id
  /\ Len(emitted) = 2

\* C22: no identifier is the partner of two different keys of the pairing
\* table: a connection is a member of at most one Pairing.
C22_PartnerOfOneKey ==
  \A a, b \in Ids :
    (a # b /\ peers[a] # NoPeer /\ peers[b] # NoPeer) => peers[a] # peers[b]

\* two pairings stand side by side
C22_Witness ==
  \E a, b \in sockets :
    /\ a # b
    /\ IsPaired(a) /\ IsPaired(b)
    /\ peers[a] # b /\ peers[b] # a

\* C23: when connect or find-next writes a pairing for requester R and the
\* dequeued waiter W, neither R nor W has an entry in the pairing table at the
\* moment of the write (find-next has deleted R's old pairing before): no
\* existing pairing is overwritten.
C23_NoPairingOverwritten ==
  [][/\ (Connect /\ findMatch(waitingQueue).socketId # NoPeer) =>
          /\ peers[nextId + 1] = NoPeer
          /\ peers[findMatch(waitingQueue).socketId] = NoPeer
     /\ \A r \in Ids :
          (FindNext(r) /\ findMatch(waitingQueue).socketId # NoPeer) =>
            LET currentPeer == peers[r]
                p1 == IF currentPeer # NoPeer
                      THEN deletePair(peers, currentPeer, r)
                      ELSE peers
                w == findMatch(waitingQueue).socketId
            IN /\ p1[r] = NoPeer
               /\ p1[w] = NoPeer]_vars

\* find-next by a paired requester has written a new pairing with a waiter
C23_Witness ==
  /\ op.name = "find-next"
  /\ op.currentPeer # NoPeer /\ op.currentPeer # op.id
  /\ op.peer # NoPeer /\ op.peer # op.id /\ op.peer # op.currentPeer
  /\ peers[op.currentPeer] = NoPeer
  /\ peers[op.peer] = op.id

\* what C24 says of a connect or find-next by requester r
MatchingPolicy(r) ==
  IF Len(waitingQueue) > 0
  THEN /\ waitingQueue' = Tail(waitingQueue)
       /\ peers'[r] = Head(waitingQueue).socketId
       /\ peers'[Head(waitingQueue).socketId] = r
  ELSE /\ Len(waitingQueue') = 1
       /\ waitingQueue'[1].socketId = r
       /\ peers'[r] = NoPeer
       /\ \A a \in Ids : peers'[a] = NoPeer \/ peers'[a] = peers[a]
       /\ Cardinality({i \in DOMAIN emitted' :
                         /\ emitted'[i].to = r
                         /\ emitted'[i].event = "waiting-for-peer"}) = 1

\* C24: a connect or find-next by R with a non-empty queue removes the head
\* entry, pairs R with it and does not enqueue R; with an empty queue it
\* enqueues R exactly once, creates no pairing and sends R exactly one
\* waiting-for-peer.
C24_MatchingPolicy ==
  [][/\ Connect => MatchingPolicy(nextId + 1)
     /\ \A r \in Ids : FindNext(r) => MatchingPolicy(r)]_vars

\* find-next by a connection its partner had left, the queue being empty
C24_Witness ==
  /\ op.name = "find-next"
  /\ op.currentPeer = NoPeer
  /\ op.peer = NoPeer
  /\ QueueEntries(op.id) = 1
  /\ Terminated # {}

\* C26: every identifier in the waiting queue and in the pairing table (key
\* or partner) is that of a live, registered connection; so the sweep never
\* meets an entry of a disconnected or matched connection, and a sender's
\* partner is always live when the relay looks it up.
C26_TablesHoldLiveConnections ==
  /\ \A k \in DOMAIN waitingQueue :
       /\ waitingQueue[k].socketId \in sockets
       /\ userInfo[waitingQueue[k].socketId] # NoUser
       /\ peers[waitingQueue[k].socketId] = NoPeer
  /\ \A a \in Ids :
       peers[a] # NoPeer =>
         /\ a \in sockets /\ userInfo[a] # NoUser
         /\ peers[a] \in sockets /\ userInfo[peers[a]] # NoUser

\* a paired connection has disconnected while another one was waiting
C26_Witness ==
  /\ op.name = "disconnect"
  /\ op.peer # NoPeer /\ op.peer # op.id
  /\ op.peer \in sockets
  /\ Len(waitingQueue) = 1

\* C27: the waiting queue never holds more than one entry.
C27_QueueAtMostOne == Len(waitingQueue) <= 1

\* a third connection is queued beside a pairing
C27_Witness ==
  /\ op.name = "connect"
  /\ op.peer = NoPeer
  /\ Len(waitingQueue) = 1
  /\ peersSize = 2

\* C30: handling a signal event changes neither the waiting queue nor the
\* pairing table nor the registry, whether the payload is relayed, rejected
\* with an error or dropped.
C30_SignalChangesNoTable ==
  [][\A id \in Ids, payload \in Payloads :
       Signal(id, payload) => UNCHANGED <<waitingQueue, peers, userInfo, sockets>>]_vars

\* a signal of a paired sender has been dropped
C30_Witness ==
  /\ op.name = "signal"
  /\ op.payload = Undefined
  /\ op.peer # NoPeer
  /\ emitted = << >>
  /\ peers[op.id] = op.peer


\* C25: the sweep changes only the waiting queue: the pairing table, the
\* registry and the live sockets stay as they are and no event is emitted; a
\* waiter it evicts stays live, is sent nothing, and is afterwards neither
\* queued nor paired.
C25_SweepChangesQueueOnly ==
  [][Sweep =>
       /\ UNCHANGED <<peers, userInfo, sockets, nextId, lastNote>>
       /\ emitted' = << >>
       /\ \A k \in DOMAIN waitingQueue :
            LET x == waitingQueue[k].socketId
            IN (\A j \in DOMAIN waitingQueue' : waitingQueue'[j] # waitingQueue[k]) =>
                 /\ x \in sockets'
                 /\ \A j \in DOMAIN waitingQueue' : waitingQueue'[j].socketId # x
                 /\ peers'[x] = NoPeer]_vars

\* the sweep has run and a live connection last told to wait is in no queue
\* entry and unpaired
C25_Witness ==
  /\ op.name = "sweep"
  /\ \E x \in sockets :
       /\ lastNote[x].event = "waiting-for-peer"
       /\ Unmatched(x)

\* C28: a live connection X has partner P exactly when the lifecycle event
\* sent to X last is a match-found naming P.
C28_PartnerIsLastMatchFound ==
  \A x \in sockets, p \in Ids :
    peers[x] = p <=> lastNote[x] = Note("match-found", p)

\* one connection was last told its partner left and is unpaired, another
\* one is paired with the partner its last match-found names
C28_Witness ==
  \E x, y \in sockets :
    /\ x # y
    /\ lastNote[x].event = "peer-disconnected" /\ peers[x] = NoPeer
    /\ peers[y] # NoPeer /\ peers[y] # y
    /\ lastNote[y] = Note("match-found", peers[y])

\* C29: every live connection whose last lifecycle event is waiting-for-peer
\* has an entry in the waiting queue.
C29_WaitingHasQueueEntry ==
  \A x \in sockets : lastNote[x].event = "waiting-for-peer" => InQueue(x)


\* the queue entries of connection y
EntriesOf(q, y) == SelectSeq(q, LAMBDA user: user.socketId = y)

\* every connection outside `touched` keeps its queue entries and its
\* pairing-table entry and is sent no event
OthersUntouched(touched) ==
  \A y \in Ids \ touched :
    /\ EntriesOf(waitingQueue', y) = EntriesOf(waitingQueue, y)
    /\ peers'[y] = peers[y]
    /\ \A a \in Ids : (peers'[a] = y) <=> (peers[a] = y)
    /\ \A i \in DOMAIN emitted' : emitted'[i].to # y

\* C31: a connect, find-next or disconnect by connection X changes queue
\* membership and pairing-table entries only for X, for X's partner at that
\* moment and for the waiter that operation dequeues; every other connection
\* keeps its queue entry and its pairing and receives no event.
C31_OthersUntouched ==
  [][/\ Connect =>
          OthersUntouched({nextId + 1, findMatch(waitingQueue).socketId})
     /\ \A x \in Ids :
          FindNext(x) =>
            OthersUntouched({x, peers[x], findMatch(waitingQueue).socketId})
     /\ \A x \in Ids :
          Disconnect(x) => OthersUntouched({x, peers[x]})]_vars

\* a find-next has been handled beside a pairing of two other connections,
\* which stands and whose members were sent nothing
C31_Witness ==
  /\ op.name = "find-next"
  /\ \E y, z \in sockets :
       /\ y # z /\ y # op.id /\ z # op.id
       /\ peers[y] = z /\ peers[z] = y
       /\ \A i \in DOMAIN emitted : emitted[i].to \notin {y, z}

====
